---- MODULE Spec2Model ----
(***************************************************************************)
(* Model of the artifact-retrieval and dataset-bootstrap code of           *)
(* ultralytics-yolov5:                                                     *)
(*   utils/downloads.py                 curl_download, safe_download,      *)
(*                                      attempt_download (github_assets)   *)
(*   utils/datasets/create_dataloader.py  create_dataloader                *)
(* One behaviour is one top-level call: safe_download, attempt_download,   *)
(* or one create_dataloader call by every rank of a process group.         *)
(***************************************************************************)
EXTENDS Integers, Sequences, FiniteSets, TLC

VARIABLES
    call,        \* which entry point the caller invoked
    \* ---- create_dataloader (one frame per rank of the group)
    group,       \* the ranks of the process group ({-1}: no group)
    args,        \* the arguments every rank passes to create_dataloader
    host,        \* os.cpu_count(), torch.cuda.device_count(), len(dataset)
    pc,          \* rank -> position in create_dataloader
    shuffle,     \* rank -> the local variable shuffle
    warned,      \* rank -> LOGGER.warning was called (line 24)
    arrived,     \* ranks that have entered dist.barrier()
    cache,       \* the dataset *.cache on disk: absent, partial, complete
    cacheBuilds, \* how many times the cache was (re)built
    constructed, \* rank -> number of LoadImagesAndLabels(...) executions
    sawPartial,  \* rank -> its construction read a partially built cache
    loader,      \* rank -> the loader configuration returned (or NoLoader)
    \* ---- downloads
    fs,          \* the regular files on disk: path -> size in bytes
    dirs,        \* the directories on disk (besides ".", "/" and "//")
    dirsize,     \* the st_size the file system reports for a directory
    disk0,       \* fs and dirs as they were when the call was made
    log,         \* the external operations performed so far, in order
    ad,          \* the frame of attempt_download
    sd           \* the frame of safe_download

bvars == <<group, args, host, pc, shuffle, warned, arrived, cache, cacheBuilds,
           constructed, sawPartial, loader>>
dvars == <<fs, dirs, dirsize, disk0, log, ad, sd>>
vars == <<call, bvars, dvars>>

----------------------------------------------------------------------------
(* Bounds *)
MaxRanks == 3       \* largest process group: ranks 0..MaxRanks-1
MaxBatch == 2       \* requested batch sizes -1..MaxBatch
MaxLen == 2         \* dataset lengths 0..MaxLen
MaxCpu == 3         \* host CPU counts 1..MaxCpu
MaxDev == 2         \* CUDA device counts 0..MaxDev
MaxWorkers == 3     \* worker ceilings -1..MaxWorkers
MaxSpecLen == 2     \* file specs of up to MaxSpecLen tokens (and ExtraSpecs)
MaxMinBytes == 2    \* safe_download called directly: min_bytes in 1..MaxMinBytes
MaxSize == 1        \* a transfer writes 0..MaxSize bytes, or about min_bytes

Min(a, b) == IF a <= b THEN a ELSE b
Max(a, b) == IF a >= b THEN a ELSE b

----------------------------------------------------------------------------
(* create_dataloader *)

NoLoader == [kind |-> "none"]

Groups == {{-1}} \cup {0 .. (n - 1) : n \in 1 .. MaxRanks}

\* The order of the steps of create_dataloader: the shuffle check, entering
\* the with block, the dataset construction inside it, leaving the with block,
\* the loader parameters and the return.
ProgramOrderUnguarded == <<"check", "construct", "enter", "exit", "params", "done">>

ProgramOrder == <<"check", "enter", "construct", "exit", "params", "done">>

After(l) ==
    LET i == CHOOSE j \in 1 .. Len(ProgramOrder) : ProgramOrder[j] = l
    IN ProgramOrder[i + 1]

\* Every rank of the group calls create_dataloader(...) once.
CallCreate(r) ==
    /\ call = "create_dataloader"
    /\ pc[r] = "idle"
    /\ pc' = [pc EXCEPT ![r] = ProgramOrder[1]]
    /\ shuffle' = [shuffle EXCEPT ![r] = args.shuffle]
    /\ UNCHANGED dvars
    /\ UNCHANGED <<call, group, args, host, warned, arrived, cache, cacheBuilds,
                   constructed, sawPartial, loader>>

\* Line 23: "if rect and shuffle".
RectConflictNever(rect, sh) == FALSE

RectConflict(rect, sh) == rect /\ sh

\* Lines 23-25: rect and shuffle together force shuffle = False, with a warning.
ShuffleCheck(r) ==
    /\ pc[r] = "check"
    /\ IF RectConflict(args.rect, shuffle[r])
         THEN /\ warned' = [warned EXCEPT ![r] = TRUE]
              /\ shuffle' = [shuffle EXCEPT ![r] = FALSE]
         ELSE UNCHANGED <<warned, shuffle>>
    /\ pc' = [pc EXCEPT ![r] = After("check")]
    /\ UNCHANGED dvars
    /\ UNCHANGED <<call, group, args, host, arrived, cache, cacheBuilds,
                   constructed, sawPartial, loader>>

\* Line 28: the rank given to torch_distributed_zero_first is the caller's rank.
GuardArgAbs(r) == IF r < 0 THEN -r ELSE r

GuardArgOr(r) == IF r = 0 THEN -1 ELSE r

GuardArg(r) == r

\* Line 28, entering `with torch_distributed_zero_first(rank)`. The context
\* manager is utils.torch_utils code, modelled from its contract (design 4.3):
\* every rank other than -1 and 0 enters the collective barrier before the block.
EnterGuard(r) ==
    /\ pc[r] = "enter"
    /\ IF GuardArg(r) \notin {-1, 0}
         THEN /\ arrived' = arrived \cup {r}
              /\ pc' = [pc EXCEPT ![r] = "enter_wait"]
         ELSE /\ pc' = [pc EXCEPT ![r] = After("enter")]
              /\ UNCHANGED arrived
    /\ UNCHANGED dvars
    /\ UNCHANGED <<call, group, args, host, shuffle, warned, cache, cacheBuilds,
                   constructed, sawPartial, loader>>

\* Line 43, leaving the with block, modelled from the same contract: rank 0
\* enters the collective barrier after the block.
ExitGuard(r) ==
    /\ pc[r] = "exit"
    /\ IF GuardArg(r) = 0
         THEN /\ arrived' = arrived \cup {r}
              /\ pc' = [pc EXCEPT ![r] = "exit_wait"]
         ELSE /\ pc' = [pc EXCEPT ![r] = After("exit")]
              /\ UNCHANGED arrived
    /\ UNCHANGED dvars
    /\ UNCHANGED <<call, group, args, host, shuffle, warned, cache, cacheBuilds,
                   constructed, sawPartial, loader>>

\* dist.barrier() returns in a rank once every rank of the group has entered it.
BarrierOpen == arrived = group

BarrierReturn(r) ==
    /\ pc[r] \in {"enter_wait", "exit_wait"}
    /\ BarrierOpen
    /\ pc' = [pc EXCEPT ![r] = IF pc[r] = "enter_wait" THEN After("enter")
                                                      ELSE After("exit")]
    /\ UNCHANGED dvars
    /\ UNCHANGED <<call, group, args, host, shuffle, warned, arrived, cache,
                   cacheBuilds, constructed, sawPartial, loader>>

\* Lines 29-43, start of LoadImagesAndLabels(...). The constructor is code of
\* the datasets package, modelled from the design (4.4, 5): a complete cache is
\* loaded, anything else makes this rank build the cache.
ConstructBegin(r) ==
    /\ pc[r] = "construct"
    /\ constructed' = [constructed EXCEPT ![r] = @ + 1]
    /\ sawPartial' = [sawPartial EXCEPT ![r] = (cache = "partial")]
    /\ IF cache = "complete"
         THEN /\ pc' = [pc EXCEPT ![r] = "loading"]
              /\ UNCHANGED <<cache, cacheBuilds>>
         ELSE /\ pc' = [pc EXCEPT ![r] = "building"]
              /\ cache' = "partial"
              /\ cacheBuilds' = cacheBuilds + 1
    /\ UNCHANGED dvars
    /\ UNCHANGED <<call, group, args, host, shuffle, warned, arrived, loader>>

\* Lines 29-43, end of LoadImagesAndLabels(...): the dataset is returned, or
\* the constructor raises and the exception leaves create_dataloader (the with
\* block's exit barrier is skipped).
ConstructEnd(r) ==
    /\ pc[r] \in {"loading", "building"}
    /\ \E raises \in BOOLEAN :
         IF raises
           THEN /\ pc' = [pc EXCEPT ![r] = "raised"]
                /\ UNCHANGED cache
           ELSE /\ pc' = [pc EXCEPT ![r] = After("construct")]
                /\ cache' = IF pc[r] = "building" THEN "complete" ELSE cache
    /\ UNCHANGED dvars
    /\ UNCHANGED <<call, group, args, host, shuffle, warned, arrived, cacheBuilds,
                   constructed, sawPartial, loader>>

\* Line 45.
EffectiveBatch == Min(args.batch_size, host.len)

\* Line 47: nw = min([os.cpu_count() // max(nd, 1), batch_size if batch_size > 1 else 0, workers]).
NumWorkersPerHost ==
    Min(Min(host.cpu,
            IF EffectiveBatch > 1 THEN EffectiveBatch ELSE 0),
        args.workers)

NumWorkers ==
    Min(Min(host.cpu \div Max(host.nd, 1),
            IF EffectiveBatch > 1 THEN EffectiveBatch ELSE 0),
        args.workers)

\* Line 48: sampler = None if rank == -1 else DistributedSampler(dataset, shuffle=shuffle).
SamplerForAlways(r) == "DistributedSampler"

SamplerFor(r) == IF r = -1 THEN "None" ELSE "DistributedSampler"

\* Line 48: the shuffle the sampler is built with (none without a sampler).
SamplerShuffle(sh, r) == IF r = -1 THEN FALSE ELSE sh

\* Line 52: shuffle=shuffle and sampler is None.
LoaderShuffleAlways(sh, r) == sh

LoaderShuffle(sh, r) == sh /\ (SamplerFor(r) = "None")

\* Lines 45-56: the loader configuration of rank r with effective shuffle sh.
LoaderConfig(r, sh) ==
    [kind |-> IF args.image_weights THEN "DataLoader" ELSE "InfiniteDataLoader",
     batch_size |-> EffectiveBatch,
     shuffle |-> LoaderShuffle(sh, r),
     num_workers |-> NumWorkers,
     sampler |-> SamplerFor(r),
     sampler_shuffle |-> SamplerShuffle(sh, r),
     collate_fn |-> IF args.quad THEN "collate_fn4" ELSE "collate_fn"]

Params(r) ==
    /\ pc[r] = "params"
    /\ loader' = [loader EXCEPT ![r] = LoaderConfig(r, shuffle[r])]
    /\ pc' = [pc EXCEPT ![r] = After("params")]
    /\ UNCHANGED dvars
    /\ UNCHANGED <<call, group, args, host, shuffle, warned, arrived, cache,
                   cacheBuilds, constructed, sawPartial>>

CreateDataloader(r) ==
    \/ CallCreate(r)
    \/ ShuffleCheck(r)
    \/ EnterGuard(r)
    \/ BarrierReturn(r)
    \/ ConstructBegin(r)
    \/ ConstructEnd(r)
    \/ ExitGuard(r)
    \/ Params(r)

\* The arguments of one call and the host it runs on. A group of several ranks
\* is explored with one set of numbers per flag combination; a single process
\* (rank -1, or rank 0 alone) with every combination.
Args ==
    [shuffle : BOOLEAN, rect : BOOLEAN, image_weights : BOOLEAN, quad : BOOLEAN,
     batch_size : -1 .. MaxBatch, workers : -1 .. MaxWorkers]

Hosts == [cpu : 1 .. MaxCpu, nd : 0 .. MaxDev, len : 0 .. MaxLen]

GroupArgs ==
    {a \in Args : /\ ~a.image_weights /\ ~a.quad
                  /\ a.batch_size = MaxBatch /\ a.workers = MaxWorkers}

GroupHosts == {h \in Hosts : h.cpu = MaxCpu /\ h.nd = MaxDev /\ h.len = MaxLen}

InitCreate ==
    /\ group \in Groups
    /\ args \in IF Cardinality(group) > 1 THEN GroupArgs ELSE Args
    /\ host \in IF Cardinality(group) > 1 THEN GroupHosts ELSE Hosts
    /\ pc = [r \in group |-> "idle"]
    /\ shuffle = [r \in group |-> FALSE]
    /\ warned = [r \in group |-> FALSE]
    /\ arrived = {}
    /\ cache \in {"absent", "complete"}
    /\ cacheBuilds = 0
    /\ constructed = [r \in group |-> 0]
    /\ sawPartial = [r \in group |-> FALSE]
    /\ loader = [r \in group |-> NoLoader]

----------------------------------------------------------------------------
(* Strings and paths.  A string is a sequence of tokens: a token is one    *)
(* special character (" ", "'", "/", ":", "?"), the percent-escape "%2F",  *)
(* or a word without special characters.                                   *)

RECURSIVE LStrip(_)
LStrip(s) == IF s # <<>> /\ Head(s) = " " THEN LStrip(Tail(s)) ELSE s

RECURSIVE RStrip(_)
RStrip(s) ==
    IF s # <<>> /\ s[Len(s)] = " " THEN RStrip(SubSeq(s, 1, Len(s) - 1)) ELSE s

\* str.strip()
Strip(s) == RStrip(LStrip(s))

IsNotQuote(t) == t # "'"

\* str.replace("'", "")
RemoveQuotes(s) == SelectSeq(s, IsNotQuote)

\* pathlib: runs of "/" collapse to one
RECURSIVE Collapse(_)
Collapse(s) ==
    IF Len(s) < 2 THEN s
    ELSE IF s[1] = "/" /\ s[2] = "/" THEN Collapse(Tail(s))
    ELSE <<s[1]>> \o Collapse(Tail(s))

\* str(Path(s)) on POSIX: slashes collapsed, trailing slash dropped, exactly
\* two leading slashes kept, the empty path is "."
PathStr(s) ==
    LET c == Collapse(s)
        t == IF Len(c) > 1 /\ c[Len(c)] = "/" THEN SubSeq(c, 1, Len(c) - 1) ELSE c
        two == /\ Len(s) >= 2 /\ s[1] = "/" /\ s[2] = "/"
               /\ (Len(s) = 2 \/ s[3] # "/")
    IN IF t = <<>> THEN <<".">>
       ELSE IF two THEN <<"/">> \o t
       ELSE t

\* Path(p).name for p = PathStr(..): the last component, "" for "." and "/"
RECURSIVE PathName(_)
PathName(p) ==
    IF p = <<>> \/ p = <<".">> THEN <<>>
    ELSE IF p[Len(p)] = "/" THEN <<>>
    ELSE PathName(SubSeq(p, 1, Len(p) - 1)) \o <<p[Len(p)]>>

\* The directories file.parent.mkdir(parents=True) makes sure exist: every
\* proper ancestor of p.
Ancestors(p) ==
    {PathStr(SubSeq(p, 1, i - 1)) : i \in {j \in 2 .. Len(p) : p[j] = "/"}}

\* urllib.parse.unquote
Unquote(s) == [i \in 1 .. Len(s) |-> IF s[i] = "%2F" THEN "/" ELSE s[i]]

\* str.startswith
StartsWith(s, prefix) ==
    Len(s) >= Len(prefix) /\ SubSeq(s, 1, Len(prefix)) = prefix

\* str.replace(":/", "://")
RECURSIVE FixScheme(_)
FixScheme(s) ==
    IF Len(s) < 2 THEN s
    ELSE IF s[1] = ":" /\ s[2] = "/"
      THEN <<":", "/", "/">> \o FixScheme(SubSeq(s, 3, Len(s)))
    ELSE <<s[1]>> \o FixScheme(Tail(s))

\* str.split("?")[0]
RECURSIVE BeforeQuery(_)
BeforeQuery(s) ==
    IF s = <<>> \/ Head(s) = "?" THEN <<>> ELSE <<Head(s)>> \o BeforeQuery(Tail(s))

\* Line 180: Path(str(file).strip().replace("'", ""))
CleanSpec(s) == PathStr(RemoveQuotes(Strip(s)))

\* Line 184
IsHttp(p) ==
    \/ StartsWith(p, <<"http", ":", "/">>)
    \/ StartsWith(p, <<"https", ":", "/">>)

----------------------------------------------------------------------------
(* The file system and the log of external operations *)

IsRoot(p) == p \in {<<".">>, <<"/">>, <<"/", "/">>}

\* Path.exists()
ExistsDirOnly(p) == p \in dirs \/ IsRoot(p)

Exists(p) == p \in DOMAIN fs \/ p \in dirs \/ IsRoot(p)

\* Path.is_file()
IsFile(p) == p \in DOMAIN fs

\* Path.is_dir()
IsDir(p) == p \in dirs \/ IsRoot(p)

\* Path.exists() with the regular files f.
ExistsIn(f, p) == p \in DOMAIN f \/ IsDir(p)

\* Path.stat().st_size of a directory depends on the file system and on the
\* number of entries: 0, a few bytes, one block, or more than MIN_BYTES.
DirSizes == {0, 40, 4096, 245760}

\* Path.stat().st_size of an existing path.
StatSize(f, p) == IF IsDir(p) THEN dirsize ELSE f[p]

\* What stat finds at p: the size, -1 when nothing is there.
StatAt(f, p) == IF ExistsIn(f, p) THEN StatSize(f, p) ELSE -1

\* The destination holds n bytes afterwards.
WriteFile(f, p, n) == [q \in DOMAIN f \cup {p} |-> IF q = p THEN n ELSE f[q]]

\* Path.unlink()
Unlink(f, p) == [q \in DOMAIN f \ {p} |-> f[q]]

\* The size of the file at p, -1 when there is none.
SizeAt(f, p) == IF p \in DOMAIN f THEN f[p] ELSE -1

Event(op, arg) == [op |-> op, arg |-> arg]

\* What a tag source answered: a tag, and from the registry the asset names.
Answer(source, tag, assets) ==
    [op |-> "answer", arg |-> <<source>>, tag |-> tag, assets |-> assets]

Ops(l) == {l[i].op : i \in 1 .. Len(l)}

----------------------------------------------------------------------------
(* safe_download and curl_download *)

NoFrame == [pc |-> "idle", file |-> <<>>, url |-> <<>>, url2 |-> <<>>,
            min_bytes |-> 0, exc |-> FALSE, left |-> -1,
            praised |-> FALSE, pleft |-> -1, cgot |-> -1, interrupted |-> FALSE]

\* What a transport can write at the destination: nothing (-1), or a file of
\* a few bytes or of about min_bytes bytes.
TransferSizes(m) == (0 .. MaxSize) \cup {m - 1, m, m + 1}

Written(m) == {-1} \cup TransferSizes(m)

\* The call safe_download(file, url, url2, min_bytes); line 119: file = Path(file).
Frame(file, url, url2, min_bytes) ==
    [pc |-> "primary", file |-> PathStr(file), url |-> url, url2 |-> url2,
     min_bytes |-> min_bytes, exc |-> FALSE, left |-> -1,
     praised |-> FALSE, pleft |-> -1, cgot |-> -1, interrupted |-> FALSE]

\* Line 124: assert file.exists() and file.stat().st_size > min_bytes
FirstCheck(f, file, min_bytes) ==
    ExistsIn(f, file) /\ StatSize(f, file) > min_bytes

\* Line 132: not file.exists() or file.stat().st_size < min_bytes
FinalCheckExistsOnly(f, file, min_bytes) == ~ExistsIn(f, file)

FinalCheck(f, file, min_bytes) ==
    ~ExistsIn(f, file) \/ StatSize(f, file) < min_bytes

\* Line 130: url2 or url
Alternate(url, url2) == IF url2 # <<>> THEN url2 ELSE url

\* Lines 80-95, curl ... --output filename -C -: a transfer resumes after the
\* bytes already at the destination.
Resumed(f, file, got) == (IF file \in DOMAIN f THEN f[file] ELSE 0) + got

\* How a call of the outside world ends: it returns, it raises an Exception,
\* or it is interrupted (KeyboardInterrupt, SystemExit: not an Exception).
Outcomes == {"returns", "raises", "interrupted"}

\* Lines 125, 197, 200, 203: except Exception.
Caught(outcome) == outcome = "raises"

\* Lines 121-124: the primary transport, then the check of its result. A
\* destination that is a directory is not replaced by a file. A failed check
\* is an AssertionError, handled by the except block; an interrupt skips the
\* except block and leaves through the finally block.
SdPrimary ==
    /\ sd.pc = "primary"
    /\ \E outcome \in Outcomes, w \in Written(sd.min_bytes) :
         LET f1 == IF w = -1 \/ IsDir(sd.file) THEN fs
                   ELSE WriteFile(fs, sd.file, w)
             ok == outcome = "returns" /\ FirstCheck(f1, sd.file, sd.min_bytes)
             handled == outcome = "returns" \/ Caught(outcome)
         IN /\ fs' = f1
            /\ sd' = [sd EXCEPT !.pc = IF ok \/ ~handled THEN "finally" ELSE "except",
                                !.exc = ~handled,
                                !.interrupted = ~handled,
                                !.left = SizeAt(f1, sd.file),
                                !.praised = outcome # "returns",
                                !.pleft = StatAt(f1, sd.file)]
    /\ log' = Append(log, Event("download", sd.url))
    /\ UNCHANGED <<call, bvars, dirs, dirsize, disk0, ad>>

\* Lines 126-127: if file.exists(): file.unlink()
ExceptCleanupNone(f, file) == f

ExceptCleanup(f, file) == IF file \in DOMAIN f THEN Unlink(f, file) ELSE f

\* Path.unlink() of a directory raises IsADirectoryError.
UnlinkRaises(file) == IsDir(file)

\* Lines 125-128: remove the partial download. When the destination is a
\* directory unlink raises: the exception leaves the except block before line
\* 130 and the finally block runs.
SdExcept ==
    /\ sd.pc = "except"
    /\ fs' = ExceptCleanup(fs, sd.file)
    /\ IF ExistsIn(fs, sd.file)
         THEN log' = Append(log, Event("unlink", sd.file))
         ELSE UNCHANGED log
    /\ sd' = IF UnlinkRaises(sd.file)
               THEN [sd EXCEPT !.pc = "finally", !.exc = TRUE]
               ELSE [sd EXCEPT !.pc = "curl"]
    /\ UNCHANGED <<call, bvars, dirs, dirsize, disk0, ad>>

\* Line 130 and curl_download (lines 80-95): the secondary transport. It ends
\* with any return code, which safe_download ignores, or subprocess.run raises.
SdCurl ==
    /\ sd.pc = "curl"
    /\ \E raises \in BOOLEAN, w \in Written(sd.min_bytes) :
         LET f1 == IF w = -1 THEN fs
                   ELSE WriteFile(fs, sd.file, Resumed(fs, sd.file, w))
         IN /\ fs' = f1
            /\ sd' = [sd EXCEPT !.pc = "finally", !.exc = raises,
                                !.left = SizeAt(f1, sd.file),
                                !.cgot = w]
    /\ log' = Append(log, Event("curl", Alternate(sd.url, sd.url2)))
    /\ UNCHANGED <<call, bvars, dirs, dirsize, disk0, ad>>

\* Lines 131-136: the finally block, then the return, or the exception of the
\* except block or of the unlink of line 134 leaves safe_download.
SdFinally ==
    /\ sd.pc = "finally"
    /\ LET cleanup == FinalCheck(fs, sd.file, sd.min_bytes) /\ ExistsIn(fs, sd.file)
       IN /\ IF cleanup
               THEN /\ fs' = IF UnlinkRaises(sd.file) THEN fs ELSE Unlink(fs, sd.file)
                    /\ log' = Append(log, Event("unlink", sd.file))
               ELSE UNCHANGED <<fs, log>>
          /\ sd' = [sd EXCEPT !.pc = IF sd.exc \/ (cleanup /\ UnlinkRaises(sd.file))
                                       THEN "raised" ELSE "returned"]
    /\ UNCHANGED <<call, bvars, dirs, dirsize, disk0, ad>>

SafeDownload == SdPrimary \/ SdExcept \/ SdCurl \/ SdFinally

SdEnded == sd.pc \in {"returned", "raised"}

\* safe_download called directly.
FetchFile == <<"f.bin">>
FetchUrl == <<"https", ":", "/", "/", "host", "/", "f.bin">>
FetchUrl2 == <<"https", ":", "/", "/", "mirror", "/", "f.bin">>

\* The destination at the call: nothing, a file, or a directory.
InitFetch ==
    /\ \E m \in 1 .. MaxMinBytes :
         /\ \E u2 \in {<<>>, FetchUrl2} : sd = Frame(FetchFile, FetchUrl, u2, m)
         /\ \/ /\ \E n \in Written(m) :
                    fs = IF n = -1 THEN <<>> ELSE WriteFile(<<>>, FetchFile, n)
               /\ dirs = {}
               /\ dirsize = 0
            \/ /\ fs = <<>>
               /\ dirs = {FetchFile}
               /\ dirsize \in DirSizes
    /\ disk0 = <<fs, dirs>>
    /\ log = <<>>

----------------------------------------------------------------------------
(* attempt_download *)

\* Line 139: the defaults of repo and release.
DefaultRepo == <<"ultralytics", "/", "yolov5">>
DefaultRelease == "v7.0"

\* Lines 190 and 211: min_bytes=1e5.
MIN_BYTES == 100000

\* Line 194: the default candidate assets.
DefaultAssets ==
    {<<"yolov5" \o size \o suffix \o ".pt">> :
        size \in {"n", "s", "m", "l", "x"}, suffix \in {"", "6", "-cls", "-seg"}}

\* Lines 175-177, github_assets: the URL of the registry query.
ApiUrl(repository, version) ==
    <<"https", ":", "/", "/", "api.github.com", "/", "repos", "/">> \o repository
      \o <<"/", "releases", "/">>
      \o (IF version # "latest" THEN <<"tags", "/", version>> ELSE <<version>>)

\* Line 210: the URL of a release asset.
ReleaseUrl(repo, tag, name) ==
    <<"https", ":", "/", "/", "github.com", "/">> \o repo
      \o <<"/", "releases", "/", "download", "/", tag, "/">> \o name

\* Lines 195-204: the source tried after a source has failed.
OnFailureSkipLatest(source) ==
    CASE source = "tagged" -> "git"
      [] source = "latest" -> "git"
      [] source = "git" -> "fallback"

OnFailure(source) ==
    CASE source = "tagged" -> "latest"
      [] source = "latest" -> "git"
      [] source = "git" -> "fallback"

\* Line 204: the tag when every source has failed.
FallbackTagDefault(release) == DefaultRelease

FallbackTag(release) == release

\* What the registry and the local repository can answer.
Tags == {"v7.0", "v6.2"}
AssetLists == {{}, {<<"yolov5s.pt">>}, {<<"custom.pt">>}}
Responses == [tag_name : Tags, assets : AssetLists]

NoCall == [pc |-> "idle", spec |-> <<>>, repo |-> <<>>, release |-> "",
           file |-> <<>>, name |-> <<>>, tag |-> "", from |-> "",
           assets |-> {}, ret |-> <<>>, interrupted |-> FALSE]

\* Lines 180-192: the spec is cleaned; an existing path is returned as it is,
\* a URL is downloaded to the name it ends with, any other spec is looked up
\* in the release registry.
AdEntry ==
    /\ ad.pc = "entry"
    /\ LET file == CleanSpec(ad.spec)
           name == PathName(PathStr(Unquote(file)))
           local == BeforeQuery(name)
       IN IF Exists(file)
            THEN /\ ad' = [ad EXCEPT !.pc = "returned", !.file = file, !.ret = file]
                 /\ UNCHANGED <<sd, log>>
          ELSE IF IsHttp(file)
            THEN IF IsFile(PathStr(local))
                   THEN /\ ad' = [ad EXCEPT !.pc = "returned", !.file = local,
                                            !.name = name, !.ret = local]
                        /\ log' = Append(log, Event("info_found", local))
                        /\ UNCHANGED sd
                   ELSE /\ ad' = [ad EXCEPT !.pc = "downloading", !.file = local,
                                            !.name = name, !.ret = local]
                        /\ sd' = Frame(local, FixScheme(file), <<>>, MIN_BYTES)
                        /\ UNCHANGED log
          ELSE /\ ad' = [ad EXCEPT !.pc = "tagged", !.file = file, !.name = name,
                                   !.assets = DefaultAssets, !.ret = file]
               /\ UNCHANGED <<sd, log>>
    /\ UNCHANGED <<call, bvars, fs, dirs, dirsize, disk0>>

\* Line 196: github_assets(repo, release).
AdTagged ==
    /\ ad.pc = "tagged"
    /\ \/ \E resp \in Responses :
            /\ ad' = [ad EXCEPT !.pc = "check", !.tag = resp.tag_name,
                                !.assets = resp.assets, !.from = "tagged"]
            /\ log' = log \o <<Event("get", ApiUrl(ad.repo, ad.release)),
                                Answer("tagged", resp.tag_name, resp.assets)>>
       \/ \E outcome \in Outcomes \ {"returns"} :
            /\ ad' = IF Caught(outcome)
                       THEN [ad EXCEPT !.pc = OnFailure("tagged")]
                       ELSE [ad EXCEPT !.pc = "raised", !.interrupted = TRUE]
            /\ log' = Append(log, Event("get", ApiUrl(ad.repo, ad.release)))
    /\ UNCHANGED <<call, bvars, fs, dirs, dirsize, disk0, sd>>

\* Line 199: github_assets(repo), the latest release.
AdLatest ==
    /\ ad.pc = "latest"
    /\ \/ \E resp \in Responses :
            /\ ad' = [ad EXCEPT !.pc = "check", !.tag = resp.tag_name,
                                !.assets = resp.assets, !.from = "latest"]
            /\ log' = log \o <<Event("get", ApiUrl(ad.repo, "latest")),
                                Answer("latest", resp.tag_name, resp.assets)>>
       \/ \E outcome \in Outcomes \ {"returns"} :
            /\ ad' = IF Caught(outcome)
                       THEN [ad EXCEPT !.pc = OnFailure("latest")]
                       ELSE [ad EXCEPT !.pc = "raised", !.interrupted = TRUE]
            /\ log' = Append(log, Event("get", ApiUrl(ad.repo, "latest")))
    /\ UNCHANGED <<call, bvars, fs, dirs, dirsize, disk0, sd>>

\* Lines 202-204: the last tag of `git tag`, or else the release asked for.
AdGitTag ==
    /\ ad.pc = "git"
    /\ \/ \E t \in Tags :
            /\ ad' = [ad EXCEPT !.pc = "check", !.tag = t, !.from = "git"]
            /\ log' = log \o <<Event("git_tag", <<>>), Answer("git", t, {})>>
       \/ \E outcome \in Outcomes \ {"returns"} :
            /\ ad' = IF Caught(outcome)
                       THEN [ad EXCEPT !.pc = "check", !.tag = FallbackTag(ad.release),
                                       !.from = OnFailure("git")]
                       ELSE [ad EXCEPT !.pc = "raised", !.interrupted = TRUE]
            /\ log' = Append(log, Event("git_tag", <<>>))
    /\ UNCHANGED <<call, bvars, fs, dirs, dirsize, disk0, sd>>

\* Line 206: name in assets
IsCandidateAlways(name, assets) == TRUE

IsCandidate(name, assets) == name \in assets

\* Line 207, file.parent.mkdir(parents=True, exist_ok=True): raises when an
\* ancestor of the file is a regular file.
MkdirRaises(f, file) == \E a \in Ancestors(file) : a \in DOMAIN f

\* Lines 206-213: a candidate asset is downloaded from its release; an
\* exception of mkdir leaves attempt_download.
AdCheck ==
    /\ ad.pc = "check"
    /\ IF IsCandidate(ad.name, ad.assets)
         THEN IF MkdirRaises(fs, ad.file)
                THEN /\ log' = Append(log, Event("mkdir", ad.file))
                     /\ ad' = [ad EXCEPT !.pc = "raised"]
                     /\ UNCHANGED <<dirs, sd>>
                ELSE /\ dirs' = dirs \cup {d \in Ancestors(ad.file) : ~IsRoot(d)}
                     /\ log' = Append(log, Event("mkdir", ad.file))
                     /\ sd' = Frame(ad.file, ReleaseUrl(ad.repo, ad.tag, ad.name),
                                    <<>>, MIN_BYTES)
                     /\ ad' = [ad EXCEPT !.pc = "downloading"]
         ELSE /\ ad' = [ad EXCEPT !.pc = "returned"]
              /\ UNCHANGED <<dirs, log, sd>>
    /\ UNCHANGED <<call, bvars, fs, dirsize, disk0>>

\* Lines 191 and 215: the return after safe_download; an exception that leaves
\* safe_download leaves attempt_download too.
AdReturn ==
    /\ ad.pc = "downloading"
    /\ SdEnded
    /\ ad' = [ad EXCEPT !.pc = sd.pc]
    /\ UNCHANGED <<call, bvars, fs, dirs, dirsize, disk0, log, sd>>

AttemptDownload == AdEntry \/ AdTagged \/ AdLatest \/ AdGitTag \/ AdCheck \/ AdReturn

AdEnded == ad.pc \in {"returned", "raised"}

\* The file specs given to attempt_download.
SpecTokens == {"yolov5s.pt", "custom.pt", " ", "'", "/"}

SeqsUpTo(S, n) == UNION {[1 .. k -> S] : k \in 0 .. n}

ExtraSpecs ==
    {<<"weights", "/", "yolov5s.pt">>,
     <<"https", ":", "/", "/", "host", "/", "f.bin">>,
     <<"http", ":", "/", "/", "host", "/", "f.bin", "?", "auth">>,
     <<"https", ":", "/", "/", "host", "/", "o", "%2F", "f.bin">>}

FileSpecs == SeqsUpTo(SpecTokens, MaxSpecLen) \cup ExtraSpecs

Releases == {DefaultRelease, "v6.2"}

\* The files on disk at the call: none, the one the raw spec names, the one the
\* cleaned spec names, the one a URL spec ends with, or one at an ancestor of
\* the cleaned spec.
FilesFor(spec) ==
    {{}} \cup {{p} : p \in {q \in {PathStr(spec), CleanSpec(spec),
                                   PathStr(BeforeQuery(PathName(PathStr(Unquote(CleanSpec(spec))))))}
                                  \cup Ancestors(CleanSpec(spec)) :
                            ~IsRoot(q)}}

\* The directories on disk at the call besides the ancestors of the files:
\* none, one at the cleaned spec, or one at the name a URL spec ends with.
DirsFor(spec) ==
    {{}} \cup {{p} : p \in {q \in {CleanSpec(spec),
                                   PathStr(BeforeQuery(PathName(PathStr(Unquote(CleanSpec(spec))))))} :
                            ~IsRoot(q)}}

\* Every ancestor of a path on disk is a directory.
Closure(paths) == {d \in paths \cup UNION {Ancestors(p) : p \in paths} : ~IsRoot(d)}

InitAttempt ==
    /\ \E spec \in FileSpecs, release \in Releases :
         /\ ad = [NoCall EXCEPT !.pc = "entry", !.spec = spec, !.repo = DefaultRepo,
                                !.release = release]
         /\ \E files \in FilesFor(spec), ds \in DirsFor(spec) :
              /\ fs = [p \in files |-> 1]
              /\ dirs = Closure(ds) \cup (Closure(files) \ files)
              /\ files \cap dirs = {}
              /\ dirsize \in IF ds = {} THEN {0} ELSE DirSizes
    /\ disk0 = <<fs, dirs>>
    /\ sd = NoFrame
    /\ log = <<>>

----------------------------------------------------------------------------
NoGroup ==
    /\ group = {}
    /\ args = CHOOSE a \in GroupArgs : ~a.shuffle /\ ~a.rect
    /\ host = CHOOSE h \in GroupHosts : TRUE
    /\ pc = <<>> /\ shuffle = <<>> /\ warned = <<>>
    /\ arrived = {}
    /\ cache = "absent"
    /\ cacheBuilds = 0
    /\ constructed = <<>> /\ sawPartial = <<>> /\ loader = <<>>

Init ==
    \/ /\ call = "create_dataloader"
       /\ InitCreate
       /\ fs = <<>> /\ dirs = {} /\ dirsize = 0 /\ disk0 = <<fs, dirs>> /\ log = <<>>
       /\ ad = NoCall /\ sd = NoFrame
    \/ /\ call = "safe_download"
       /\ InitFetch
       /\ ad = NoCall
       /\ NoGroup
    \/ /\ call = "attempt_download"
       /\ InitAttempt
       /\ NoGroup

Next ==
    \/ \E r \in group : CallCreate(r)
    \/ \E r \in group : ShuffleCheck(r)
    \/ \E r \in group : EnterGuard(r)
    \/ \E r \in group : BarrierReturn(r)
    \/ \E r \in group : ConstructBegin(r)
    \/ \E r \in group : ConstructEnd(r)
    \/ \E r \in group : ExitGuard(r)
    \/ \E r \in group : Params(r)
    \/ SdPrimary
    \/ SdExcept
    \/ SdCurl
    \/ SdFinally
    \/ AdEntry
    \/ AdTagged
    \/ AdLatest
    \/ AdGitTag
    \/ AdCheck
    \/ AdReturn

Spec == Init /\ [][Next]_vars

\* Every rank is a process of its own (create_dataloader.py:27-56 runs once in
\* each): a rank that can take its next step eventually takes it.
FairSpec ==
    Spec /\ \A r \in (-1) .. (MaxRanks - 1) :
                WF_vars(r \in group /\ CreateDataloader(r))

----------------------------------------------------------------------------
(* Properties of create_dataloader *)

Returned(r) == pc[r] = "done"

AllReturned ==
    /\ call = "create_dataloader"
    /\ \A r \in group : Returned(r)

\* The number of dataset constructions executed across the group.
Constructions == Cardinality({<<r, k>> \in group \X (1 .. 2) : k <= constructed[r]})

\* Rank 0 has finished its dataset construction.
LeaderFinished == pc[0] \in {"exit", "exit_wait", "params", "done"}

\* C1 as stated: in a group of N >= 1 ranks that all call create_dataloader
\* once, the dataset construction inside torch_distributed_zero_first executes
\* exactly once across the whole group.
C1_ConstructedOncePerGroup ==
    (AllReturned /\ 0 \in group) => Constructions = 1

\* C1 amended: every rank executes the dataset construction exactly once, N
\* executions across the group; what happens at most once in the group is the
\* build of the dataset cache.
C1_ConstructedOncePerRank ==
    (call = "create_dataloader" /\ 0 \in group) =>
        /\ \A r \in group : constructed[r] <= 1
        /\ cacheBuilds <= 1
        /\ AllReturned =>
             /\ \A r \in group : constructed[r] = 1
             /\ Constructions = Cardinality(group)

C1_Witness ==
    /\ AllReturned
    /\ Cardinality(group) >= 2
    /\ 0 \in group
    /\ cacheBuilds = 1
    /\ Constructions = Cardinality(group)

\* C2: no rank > 0 starts its dataset construction, or any later step, before
\* rank 0 has finished its own, and no rank > 0 reads a partially built cache.
C2_FollowersAfterLeader ==
    \A r \in group :
        (r > 0 /\ pc[r] \in {"construct", "loading", "building", "exit", "params",
                             "done", "raised"}) =>
            /\ LeaderFinished
            /\ ~sawPartial[r]
            /\ cache = "complete"

C2_Witness ==
    \E r \in group :
        /\ r > 0
        /\ pc[r] \in {"loading", "building"}
        /\ LeaderFinished
        /\ cache = "complete"

\* C12: with rank -1 create_dataloader runs the guarded dataset construction at
\* once and exactly once in the calling process, enters no barrier, and is never
\* kept waiting: it can always take its next step until it ends.
C12_NoGroupNoBarrier ==
    (call = "create_dataloader" /\ -1 \in group) =>
        /\ pc[-1] \notin {"enter_wait", "exit_wait"}
        /\ arrived = {}
        /\ constructed[-1] <= 1
        /\ pc[-1] \in {"exit", "params", "done"} => constructed[-1] = 1
        /\ pc[-1] \notin {"done", "raised"} => ENABLED CreateDataloader(-1)

C12_Witness ==
    /\ call = "create_dataloader"
    /\ -1 \in group
    /\ pc[-1] = "done"
    /\ constructed[-1] = 1
    /\ arrived = {}

\* The bounds create_dataloader is to keep the worker count within.
WorkersWithinBounds(r) ==
    LET nw == loader[r].num_workers
        b == loader[r].batch_size
    IN /\ b = (IF args.batch_size <= host.len THEN args.batch_size ELSE host.len)
       /\ 0 <= nw
       /\ nw <= args.workers
       /\ nw <= b
       /\ nw * (IF host.nd >= 1 THEN host.nd ELSE 1) <= host.cpu
       /\ b <= 1 => nw = 0

\* C13 as stated: for all integer inputs the worker count is within
\* [0, workers], at most the effective batch size min(batch_size, len(dataset))
\* and at most cpu_count div max(device_count, 1), and it is 0 whenever the
\* effective batch size is 1 or less.
C13_WorkersBoundedForAllInputs ==
    \A r \in group : Returned(r) => WorkersWithinBounds(r)

\* C13 amended: the same, for every input with workers >= 0 and a requested
\* batch size >= 0. A negative workers comes out as the worker count itself;
\* with workers >= 0 a negative batch size gives worker count 0, above the
\* negative effective batch size.
C13_WorkersBoundedForNaturalInputs ==
    \A r \in group :
        Returned(r) =>
            /\ (args.workers >= 0 /\ args.batch_size >= 0) => WorkersWithinBounds(r)
            /\ args.workers < 0 => loader[r].num_workers = args.workers
            /\ (args.workers >= 0 /\ args.batch_size < 0) =>
                   /\ loader[r].num_workers = 0
                   /\ loader[r].batch_size = args.batch_size

\* The CPU quotient is the one binding term: 3 div 2 = 1 worker, below the
\* worker ceiling and below the effective batch size.
C13_Witness ==
    \E r \in group :
        /\ Returned(r)
        /\ host.cpu = 3 /\ host.nd = 2
        /\ args.workers >= 2
        /\ loader[r].batch_size = 2
        /\ loader[r].num_workers = 1

\* A rank that has passed the check of lines 23-25.
PastCheck(r) == pc[r] \notin {"idle", "check"}

\* C14: called with shuffle = true and rect = true, every rank logs the warning
\* and uses shuffle = false from then on: the shuffle given to the loader and
\* the shuffle given to the distributed sampler are both false.
C14_RectDisablesShuffle ==
    \A r \in group :
        (args.shuffle /\ args.rect /\ PastCheck(r)) =>
            /\ warned[r]
            /\ ~shuffle[r]
            /\ Returned(r) => ~loader[r].shuffle /\ ~loader[r].sampler_shuffle

C14_Witness ==
    /\ call = "create_dataloader"
    /\ Cardinality(group) >= 2
    /\ args.shuffle /\ args.rect
    /\ AllReturned
    /\ \A r \in group : warned[r] /\ loader[r].sampler = "DistributedSampler"

\* The configuration the same call produces with the other value of shuffle.
OtherShuffle(r) ==
    LoaderConfig(r, IF RectConflict(args.rect, ~args.shuffle) THEN FALSE
                                                              ELSE ~args.shuffle)

\* C15 as stated: under a sampler (rank >= 0, rect = false) two calls that
\* differ only in shuffle produce the same loader configuration, the sampler's
\* ordering included.
C15_ShuffleIgnoredUnderSampler ==
    \A r \in group :
        (Returned(r) /\ r >= 0 /\ ~args.rect) => loader[r] = OtherShuffle(r)

\* C15 amended: under a sampler the flag never reaches the loader (its shuffle
\* is false) and the two configurations agree in everything but the shuffle
\* the sampler was built with, which is the caller's flag.
C15_ShuffleReachesOnlySampler ==
    \A r \in group :
        (Returned(r) /\ r >= 0 /\ ~args.rect) =>
            /\ ~loader[r].shuffle
            /\ loader[r].sampler_shuffle = args.shuffle
            /\ OtherShuffle(r).sampler_shuffle = ~args.shuffle
            /\ [loader[r] EXCEPT !.sampler_shuffle = ~@] = OtherShuffle(r)

C15_Witness ==
    /\ call = "create_dataloader"
    /\ 0 \in group /\ Returned(0)
    /\ args.shuffle /\ ~args.rect
    /\ loader[0].sampler_shuffle /\ ~loader[0].shuffle

\* C16: a returned configuration has a distributed sampler exactly when
\* rank >= 0 and none exactly when rank = -1, and the loader's shuffle is true
\* only without a sampler.
C16_SamplerIffRanked ==
    \A r \in group :
        Returned(r) =>
            /\ loader[r].sampler = "DistributedSampler" <=> r >= 0
            /\ loader[r].sampler = "None" <=> r = -1
            /\ loader[r].shuffle => loader[r].sampler = "None"

C16_Witness ==
    /\ call = "create_dataloader"
    /\ -1 \in group /\ Returned(-1)
    /\ loader[-1].shuffle /\ loader[-1].sampler = "None"

\* Rank 0's guarded dataset construction has raised.
LeaderRaised == call = "create_dataloader" /\ 0 \in group /\ pc[0] = "raised"

\* No rank > 0 has passed its entry barrier.
FollowersBlocked ==
    /\ 0 \notin arrived
    /\ \A r \in group \ {0} :
           /\ pc[r] \in {"idle", "check", "enter", "enter_wait"}
           /\ constructed[r] = 0

\* C18: once rank 0's guarded construction has raised, rank 0 never enters the
\* exit barrier, and from then on no rank > 0 passes its entry barrier: none
\* starts its dataset construction or returns.
C18_LeaderRaiseBlocksFollowers ==
    /\ [](LeaderRaised => FollowersBlocked)
    /\ [][LeaderRaised => LeaderRaised']_vars

C18_Witness ==
    /\ LeaderRaised
    /\ Cardinality(group) >= 2
    /\ \A r \in group \ {0} : pc[r] = "enter_wait"
    /\ arrived = group \ {0}

\* Rank r has left create_dataloader, by returning or by its own exception.
Left(r) == call = "create_dataloader" /\ r \in group /\ pc[r] \in {"done", "raised"}

\* C19: with every rank scheduled fairly, every rank of a group eventually
\* leaves create_dataloader, returning unless its own construction raised,
\* provided rank 0's construction does not raise; when all ranks have returned
\* every rank of a group has entered the collective barrier.
C19_EveryRankReturns ==
    /\ \A r \in (-1) .. (MaxRanks - 1) :
           (call = "create_dataloader" /\ r \in group) ~> (Left(r) \/ LeaderRaised)
    /\ [](AllReturned => arrived = group \ {-1})

C19_Witness ==
    /\ AllReturned
    /\ Cardinality(group) = MaxRanks
    /\ arrived = group
    /\ \A r \in group : constructed[r] = 1

----------------------------------------------------------------------------
(* Properties of safe_download *)

\* The last transfer left a file smaller than min_bytes at the destination.
LeftUndersized == sd.left >= 0 /\ sd.left < sd.min_bytes

\* C3: for min_bytes > 0, if the last transfer left a file smaller than
\* min_bytes at the destination, the destination does not exist when
\* safe_download ends, by return or by exception, whichever transport wrote it.
C3_NoUndersizedFileLeft ==
    (SdEnded /\ sd.min_bytes > 0 /\ LeftUndersized) => sd.file \notin DOMAIN fs

C3_Witness ==
    /\ sd.pc = "raised"
    /\ LeftUndersized
    /\ sd.left > 0
    /\ "curl" \in Ops(log)
    /\ sd.file \notin DOMAIN fs

\* C4: when safe_download ends, the destination does not exist or is larger
\* than min_bytes: the final check rejects what the first check rejects, a file
\* of exactly min_bytes from the secondary transport included.
C4_FinalCheckAsFirstCheck ==
    SdEnded => (sd.file \notin DOMAIN fs \/ FirstCheck(fs, sd.file, sd.min_bytes))

----------------------------------------------------------------------------
(* Properties of attempt_download *)

\* C5: whichever of the registry queries, the git-tag lookup and the two
\* transports fail, attempt_download ends by returning a path and never by an
\* exception that reaches its caller.
C5_NeverRaises == ad.pc # "raised"

IsDownload(e) == e.op = "download"
IsSource(e) == e.op \in {"get", "git_tag"}
IsAnswer(e) == e.op = "answer"
IsChange(e) == e.op \in {"download", "curl", "unlink", "mkdir"}

Downloads == SelectSeq(log, IsDownload)
Sources == SelectSeq(log, IsSource)
Answers == SelectSeq(log, IsAnswer)

DiskUnchanged == <<fs, dirs>> = disk0

\* The path existed when attempt_download was called.
ExistedAtCall(p) == p \in DOMAIN disk0[1] \/ p \in disk0[2] \/ IsRoot(p)

\* The spec with surrounding whitespace stripped and single quotes removed,
\* as a path string.
Cleaned == PathStr(RemoveQuotes(Strip(ad.spec)))

\* attempt_download was given a spec that is neither an existing path nor a URL.
BareName ==
    /\ call = "attempt_download"
    /\ ~ExistedAtCall(Cleaned)
    /\ ~IsHttp(Cleaned)

\* The tag sources have been gone through: one has answered or all have
\* failed, none was interrupted, and the asset list in force is known.
Resolved ==
    /\ ad.pc \in {"check", "downloading", "returned", "raised"}
    /\ ~ad.interrupted

\* C6: for a spec that is neither an existing local file nor a URL and whose
\* name is in the asset list the registry returned, attempt_download issues
\* exactly one safe_download, with the URL
\* https://github.com/{repo}/releases/download/{tag}/{name} of the tag the
\* registry answered, and returns the local path of the spec.
C6_RegistryAssetDownloaded ==
    (/\ BareName
     /\ AdEnded
     /\ Answers # <<>>
     /\ Answers[1].arg[1] \in {"tagged", "latest"}
     /\ ad.name \in Answers[1].assets) =>
        /\ Len(Downloads) = 1
        /\ Downloads[1].arg = ReleaseUrl(ad.repo, Answers[1].tag, ad.name)
        /\ ad.pc = "returned"
        /\ ad.ret = Cleaned

\* C7 as stated: for a spec that is neither an existing local file nor a URL
\* and whose name is not in the asset list in force, attempt_download starts no
\* transfer, creates no file or directory, and returns the original spec
\* unchanged, without raising.
C7_UnknownNameReturnedUnchanged ==
    (BareName /\ AdEnded /\ Resolved /\ ad.name \notin ad.assets) =>
        /\ SelectSeq(log, IsChange) = <<>>
        /\ sd.pc = "idle"
        /\ DiskUnchanged
        /\ ad.pc = "returned"
        /\ ad.ret = ad.spec

\* C7 amended: ... and returns the spec with surrounding whitespace stripped
\* and single quotes removed, as a path string (the original spec when it has
\* none of these and is a normalised path), without raising.
C7_UnknownNameReturnedCleaned ==
    (BareName /\ AdEnded /\ Resolved /\ ad.name \notin ad.assets) =>
        /\ SelectSeq(log, IsChange) = <<>>
        /\ sd.pc = "idle"
        /\ DiskUnchanged
        /\ ad.pc = "returned"
        /\ ad.ret = Cleaned

C7_Witness ==
    /\ BareName
    /\ ad.pc = "returned"
    /\ ad.name \notin ad.assets
    /\ ad.assets = DefaultAssets
    /\ Len(Sources) = 3
    /\ ad.ret # ad.spec

\* The tagged query, the latest-release query and the git-tag lookup have all
\* failed.
AllSourcesFailed == BareName /\ Resolved /\ Len(Sources) = 3 /\ Answers = <<>>

\* C8 as stated: when the tagged query, the latest-release query and the
\* git-tag lookup all fail, attempt_download uses the statically configured
\* default release tag and the default asset list, whatever release was asked
\* for, and the download of a name in that list carries the default tag.
C8_FallbackIsDefaultTag ==
    AllSourcesFailed =>
        /\ ad.tag = DefaultRelease
        /\ ad.assets = DefaultAssets
        /\ (ad.name \in DefaultAssets /\ ad.pc # "check") =>
             IF MkdirRaises(disk0[1], ad.file)
               THEN ad.pc = "raised" /\ sd.pc = "idle"
               ELSE /\ sd.pc # "idle"
                    /\ sd.url = ReleaseUrl(ad.repo, DefaultRelease, ad.name)

\* C8 amended: ... attempt_download uses the release tag it was asked for (the
\* release argument, v7.0 when the caller gives none) and the default asset
\* list, and the download of a name in that list carries that tag (a bare
\* name has no parent directory to make, so its download is always issued).
C8_FallbackIsRequestedTag ==
    AllSourcesFailed =>
        /\ ad.tag = ad.release
        /\ ad.assets = DefaultAssets
        /\ (ad.name \in DefaultAssets /\ ad.pc # "check") =>
             IF MkdirRaises(disk0[1], ad.file)
               THEN ad.pc = "raised" /\ sd.pc = "idle"
               ELSE /\ sd.pc # "idle"
                    /\ sd.url = ReleaseUrl(ad.repo, ad.release, ad.name)

C8_Witness ==
    /\ AllSourcesFailed
    /\ ad.spec = <<"yolov5s.pt">>
    /\ ad.release # DefaultRelease
    /\ ad.name = <<"yolov5s.pt">>
    /\ Len(Downloads) = 1
    /\ Downloads[1].arg = ReleaseUrl(DefaultRepo, "v6.2", <<"yolov5s.pt">>)

\* The tag sources in the order of lines 196-204.
SourceOrder ==
    <<Event("get", ApiUrl(ad.repo, ad.release)),
      Event("get", ApiUrl(ad.repo, "latest")),
      Event("git_tag", <<>>)>>

SourceNames == <<"tagged", "latest", "git">>

\* C9: the tag sources are consulted in the order tagged query, latest query,
\* git tag, fallback; a source is consulted only when every earlier one failed;
\* the tag of the download URL is that of the first source that succeeded; the
\* default asset list is the candidate list only when both registry queries
\* failed, otherwise it is the list the successful query returned.
C9_SourcesInOrder ==
    call = "attempt_download" =>
        /\ \E k \in 0 .. 3 :
             /\ Sources = SubSeq(SourceOrder, 1, k)
             /\ Len(Answers) <= 1
             /\ Answers # <<>> => Answers[1].arg = <<SourceNames[k]>>
             /\ (BareName /\ Resolved /\ Answers = <<>>) => k = 3
        /\ (BareName /\ Resolved) =>
             /\ ad.tag = IF Answers # <<>> THEN Answers[1].tag ELSE ad.release
             /\ ad.assets = IF Answers # <<>> /\ Answers[1].arg[1] \in {"tagged", "latest"}
                              THEN Answers[1].assets
                              ELSE DefaultAssets
             /\ sd.pc # "idle" => sd.url = ReleaseUrl(ad.repo, ad.tag, ad.name)

C9_Witness ==
    /\ BareName
    /\ Len(Sources) = 2
    /\ Answers # <<>>
    /\ Answers[1].tag # ad.release
    /\ Len(Downloads) = 1
    /\ Downloads[1].arg = ReleaseUrl(ad.repo, Answers[1].tag, ad.name)

\* C10 as stated: if the spec names an existing local file, attempt_download
\* returns the spec unchanged, with no registry query, no git-tag lookup and no
\* transfer, and the file is neither modified nor deleted.
C10_ExistingFileReturnedUnchanged ==
    (call = "attempt_download" /\ Cleaned \in DOMAIN disk0[1]) =>
        /\ log = <<>>
        /\ sd.pc = "idle"
        /\ DiskUnchanged
        /\ AdEnded => (ad.pc = "returned" /\ ad.ret = ad.spec)

\* C10 amended: if the spec, with surrounding whitespace stripped and single
\* quotes removed, names an existing local file, attempt_download returns that
\* cleaned spec as a path string (the spec itself when it has none of these),
\* with no registry query, no git-tag lookup and no transfer, and the file is
\* neither modified nor deleted.
C10_ExistingFileReturnedCleaned ==
    (call = "attempt_download" /\ Cleaned \in DOMAIN disk0[1]) =>
        /\ log = <<>>
        /\ sd.pc = "idle"
        /\ DiskUnchanged
        /\ ad.pc \in {"entry", "returned"}
        /\ AdEnded => ad.ret = Cleaned

C10_Witness ==
    /\ call = "attempt_download"
    /\ Cleaned \in DOMAIN disk0[1]
    /\ ad.pc = "returned"
    /\ ad.ret = <<"yolov5s.pt">>
    /\ ad.spec = <<" ", "yolov5s.pt">>

\* The local name attempt_download derives from a URL spec: the last path
\* component after percent-decoding, up to the first "?".
LocalName == BeforeQuery(PathName(PathStr(Unquote(Cleaned))))

\* attempt_download was given a URL for which no local path of that spec exists.
UrlSpec ==
    /\ call = "attempt_download"
    /\ ~ExistedAtCall(Cleaned)
    /\ IsHttp(Cleaned)

\* C11: for a URL spec of which no local file exists, attempt_download derives
\* the local name from the URL; if a file of that name exists it starts no
\* transfer, otherwise it calls safe_download exactly once with min_bytes
\* 100000 and no alternate URL; it makes no registry query in either case and
\* returns the local name, also when the download failed and no file is there.
C11_UrlDownloadedToLocalName ==
    (UrlSpec /\ AdEnded) =>
        /\ Sources = <<>>
        /\ IF PathStr(LocalName) \in DOMAIN disk0[1]
             THEN sd.pc = "idle" /\ SelectSeq(log, IsChange) = <<>>
             ELSE /\ Len(Downloads) = 1
                  /\ sd.file = PathStr(LocalName)
                  /\ sd.min_bytes = 100000
                  /\ sd.url2 = <<>>
        /\ ad.pc = "returned"
        /\ ad.ret = LocalName

\* C17: the secondary transport is started at most once, after the primary
\* one and exactly when that raised or left a destination that is missing or
\* not larger than min_bytes; it is given url2 when one was supplied and url
\* otherwise; a primary transfer that produced a file larger than min_bytes
\* is followed by no secondary transfer and its file is there on return.
IsCurl(e) == e.op = "curl"
IsUnlink(e) == e.op = "unlink"
Curls == SelectSeq(log, IsCurl)
PrimaryRejected == sd.praised \/ sd.pleft = -1 \/ sd.pleft <= sd.min_bytes

C17_SecondaryOnceWhenPrimaryRejected ==
    /\ Len(Curls) <= 1
    /\ sd.pc \in {"idle", "primary", "except", "curl"} => Curls = <<>>
    /\ sd.pc \in {"finally", "returned", "raised"} =>
           (Len(Curls) = 1 <=> PrimaryRejected)
    /\ Len(Curls) = 1 =>
           Curls[1].arg = (IF sd.url2 # <<>> THEN sd.url2 ELSE sd.url)
    /\ (SdEnded /\ ~PrimaryRejected) =>
           /\ Curls = <<>>
           /\ SelectSeq(log, IsUnlink) = <<>>
           /\ sd.pc = "returned"
           /\ sd.file \in DOMAIN fs
           /\ fs[sd.file] = sd.pleft

C17_Witness ==
    /\ SdEnded
    /\ ~sd.praised /\ sd.pleft >= 0 /\ sd.pleft <= sd.min_bytes
    /\ sd.url2 # <<>>
    /\ Len(Curls) = 1 /\ Curls[1].arg = sd.url2

\* C20: when the secondary transport starts the destination does not exist,
\* whatever the primary transfer left there or was there before the call, so
\* what is at the destination after it is what it transferred alone.
C20_DestinationAbsentBeforeSecondary ==
    /\ sd.pc = "curl" => ~ExistsIn(fs, sd.file)
    /\ (sd.pc = "finally" /\ Len(Curls) = 1) => StatAt(fs, sd.file) = sd.cgot

C20_Witness ==
    /\ sd.pc = "curl"
    /\ sd.pleft >= 0
    /\ ~ExistsIn(fs, sd.file)
    /\ log[Len(log)] = Event("unlink", sd.file)

====
